---- MODULE Spec2Model ----
(***************************************************************************)
(* Model of src/app.py: a Streamlit script that is re-executed top to      *)
(* bottom on every user interaction.  Process-lifetime state is the two    *)
(* Streamlit caches (login, load_tokens); everything else is rebuilt by    *)
(* each script run.  The gateway (SmartApi) and the indicator library      *)
(* (pandas_ta) are external: their results are drawn from the shapes the   *)
(* script itself distinguishes (exception / None / frame / NaN / number).  *)
(***************************************************************************)
EXTENDS Integers, Sequences, FiniteSets, TLC

VARIABLES
    \* ---- process lifetime ----
    secrets_ok,        \* st.secrets holds all five keys (lines 16-27)
    login_cache,       \* st.cache_resource entry of login(): "unset" | "api" | "None"
    tokens_cache,      \* st.cache_data entry of load_tokens(): "unset" | "table" | "empty"
    sessions_created,  \* number of smartApi.generateSession calls made so far
    \* ---- one script run ----
    pc,                \* position of the running script, "idle" between runs
    check_password,    \* text typed in the sidebar password box
    clicked,           \* st.sidebar.button("Analyze (Rule of 3)") of this run
    api,               \* module global api (line 66)
    tokens_df,         \* module global tokens_df (line 67)
    stock_name,        \* selectbox value (line 132)
    df_daily,          \* line 140 / 148
    df_intra,          \* line 143 / 149
    trend_bullish, mom_bullish, vol_bullish, intra_bullish, score, rsi_val,
    shown,             \* elements written to the page by this run
    exc,               \* uncaught exception that ended this run, "none" if none
    reached,           \* gated steps this run has executed
    \* ---- history (observation only) ----
    ever_unlocked,     \* some run so far passed the password comparison
    touched,           \* gated steps executed by any run so far
    failed_before,     \* an earlier Analyze request of this process ended in the fetch-failure branch
    \* ---- direct calls of the two pure functions ----
    arg, ret

procvars == <<secrets_ok, login_cache, tokens_cache, sessions_created>>
runvars  == <<pc, check_password, clicked, api, tokens_df, stock_name, df_daily, df_intra,
              trend_bullish, mom_bullish, vol_bullish, intra_bullish, score, rsi_val,
              shown, exc, reached>>
histvars == <<ever_unlocked, touched, failed_before>>
fnvars   == <<arg, ret>>
vars     == <<procvars, runvars, histvars, fnvars>>

(***************************************************************************)
(* Python / pandas values                                                  *)
(***************************************************************************)
Num(n) == [k |-> "num", v |-> n]
NaN    == [k |-> "nan", v |-> 0]
PyNone == [k |-> "none", v |-> 0]

\* raw JSON fields of a gateway row
RawNum(n) == [k |-> "num", v |-> n]      \* a JSON number
RawStr(n) == [k |-> "str", v |-> n]      \* a string that spells the number / time n
RawNull   == [k |-> "none", v |-> 0]     \* JSON null
RawBad    == [k |-> "bad", v |-> 0]      \* a string that spells nothing parseable

\* a > b as Python evaluates it on two scalars of a row
GtRaises(a, b) == a.k = "none" \/ b.k = "none"
Gt(a, b)       == a.k = "num" /\ b.k = "num" /\ a.v > b.v

(***************************************************************************)
(* fetch_data (lines 70-85)                                                *)
(***************************************************************************)
BaseColumns == <<"Open", "High", "Low", "Close", "Volume">>

NoInd == [c \in {} |-> NaN]

DF(rows, ind) == [kind |-> "df", rows |-> rows, ind |-> ind]
NoneDF  == [kind |-> "None", rows |-> <<>>, ind |-> NoInd]
UnsetDF == [kind |-> "unset", rows |-> <<>>, ind |-> NoInd]

\* pd.DataFrame(data['data'], columns=[6 names]) accepts rows of exactly six fields
FrameRaises(rows) == \E i \in 1..Len(rows) : Len(rows[i]) # 6

\* pd.to_datetime on the Timestamp column
ToDatetimeRaises(rows) == \E i \in 1..Len(rows) : rows[i][1].k = "bad"
to_datetime(x) == IF x.k \in {"str", "num"} THEN [k |-> "ts", v |-> x.v] ELSE [k |-> "nat", v |-> 0]

\* DataFrame.astype(float) on the five value columns
AstypeRaises(rows) == \E i \in 1..Len(rows) : \E j \in 2..6 : rows[i][j].k = "bad"
astype_float(x) == IF x.k \in {"num", "str"} THEN Num(x.v) ELSE NaN

\* lines 80-83 on one row: positional fields become named columns, index parsed, values cast
NormalizeRow(r) ==
    [Timestamp |-> to_datetime(r[1]),
     Open   |-> astype_float(r[2]),
     High   |-> astype_float(r[3]),
     Low    |-> astype_float(r[4]),
     Close  |-> astype_float(r[5]),
     Volume |-> astype_float(r[6])]

\* rows keep the order in which the gateway returned them: set_index does not sort
NormalizeRows(rows) == [i \in 1..Len(rows) |-> NormalizeRow(rows[i])]

\* gateway answers to api.getCandleData(params)
RespRaise       == [kind |-> "raise", rows |-> <<>>]    \* network / gateway exception
RespNoData      == [kind |-> "nodata", rows |-> <<>>]   \* not subscriptable or no 'data' key
RespNull        == [kind |-> "null", rows |-> <<>>]     \* {'data': None}
RespRows(rows)  == [kind |-> "rows", rows |-> rows]

fetch_data(the_api, resp) ==
    IF the_api # "api" THEN NoneDF                       \* None.getCandleData -> except
    ELSE IF resp.kind \in {"raise", "nodata"} THEN NoneDF
    ELSE IF resp.kind = "null" THEN DF(<<>>, NoInd)
    ELSE IF FrameRaises(resp.rows) THEN NoneDF
    ELSE IF ToDatetimeRaises(resp.rows) THEN NoneDF
    ELSE IF AstypeRaises(resp.rows) THEN NoneDF
    ELSE DF(NormalizeRows(resp.rows), NoInd)

\* df.empty
Empty(df) == Len(df.rows) = 0
\* df.iloc[-1]
Last(df) == df.rows[Len(df.rows)]

(***************************************************************************)
(* add_indicators (lines 88-123)                                           *)
(* A pandas_ta call returns either None or a result; for the single-series *)
(* indicators the model keeps the value on the last row (NaN while the     *)
(* indicator is still warming up), for the multi-column ones the frame's   *)
(* column names, each written stem + "_" + parameters.                     *)
(***************************************************************************)
Col(stem, val) == [stem |-> stem, rest |-> "_params", val |-> val]
NoFrame      == [kind |-> "None", columns |-> <<>>]
Frame(cols)  == [kind |-> "frame", columns |-> cols]

\* col.startswith(stem + '_'): stems hold no underscore, so the prefix test is on the stem
StartsWith(col, stem) == col.stem = stem

\* [col for col in frame.columns if col.startswith(prefix)]
Matching(frame, stem) ==
    SelectSeq(frame.columns, LAMBDA col : StartsWith(col, stem))

\* df[col] = val
SetCol(ind, col, val) ==
    [c \in (DOMAIN ind) \cup {col} |-> IF c = col THEN val ELSE ind[c]]

Columns(df) == {BaseColumns[i] : i \in 1..Len(BaseColumns)} \cup DOMAIN df.ind

\* lines 89-91
trend_step(ind, lib) ==
    SetCol(SetCol(ind, "SMA_50", lib.sma50), "EMA_50", lib.ema50)

\* lines 93-97: result is [raised, ind]
supertrend_step(ind, lib) ==
    IF lib.supertrend.kind = "None" THEN [raised |-> "none", ind |-> ind]
    ELSE IF Len(Matching(lib.supertrend, "SUPERT")) = 0
         THEN [raised |-> "IndexError", ind |-> ind]
    ELSE [raised |-> "none",
          ind |-> SetCol(ind, "Supertrend", Matching(lib.supertrend, "SUPERT")[1].val)]

\* lines 99-106
momentum_step(ind, lib) ==
    LET withRsi == SetCol(ind, "RSI", lib.rsi) IN
    IF lib.macd.kind = "None" THEN [raised |-> "none", ind |-> withRsi]
    ELSE IF Len(Matching(lib.macd, "MACD")) = 0 \/ Len(Matching(lib.macd, "MACDs")) = 0
         THEN [raised |-> "IndexError", ind |-> withRsi]
    ELSE [raised |-> "none",
          ind |-> SetCol(SetCol(withRsi, "MACD", Matching(lib.macd, "MACD")[1].val),
                         "MACD_Signal", Matching(lib.macd, "MACDs")[1].val)]

\* lines 108-114
volatility_step(ind, lib) ==
    IF lib.bbands.kind = "None" THEN [raised |-> "none", ind |-> ind]
    ELSE IF Len(Matching(lib.bbands, "BBU")) = 0 \/ Len(Matching(lib.bbands, "BBL")) = 0
         THEN [raised |-> "IndexError", ind |-> ind]
    ELSE [raised |-> "none",
          ind |-> SetCol(SetCol(ind, "BB_Upper", Matching(lib.bbands, "BBU")[1].val),
                         "BB_Lower", Matching(lib.bbands, "BBL")[1].val)]

\* lines 116-117
volume_step(ind, lib) == SetCol(ind, "Vol_SMA_5", lib.vol_sma5)

vwap_step_always(ind, is_intraday, lib) == SetCol(ind, "VWAP", lib.vwap)

\* lines 119-121
vwap_step(ind, is_intraday, lib) ==
    IF is_intraday THEN SetCol(ind, "VWAP", lib.vwap) ELSE ind

\* the whole function; the frame is modified in place, so a raise leaves the columns
\* assigned so far
add_indicators(df, is_intraday, lib) ==
    IF df.kind # "df" THEN [raised |-> "TypeError", df |-> df]   \* None['Close'], line 90
    ELSE
    LET s1 == supertrend_step(trend_step(df.ind, lib), lib) IN
    IF s1.raised # "none" THEN [raised |-> s1.raised, df |-> DF(df.rows, s1.ind)]
    ELSE LET s2 == momentum_step(s1.ind, lib) IN
    IF s2.raised # "none" THEN [raised |-> s2.raised, df |-> DF(df.rows, s2.ind)]
    ELSE LET s3 == volatility_step(s2.ind, lib) IN
    IF s3.raised # "none" THEN [raised |-> s3.raised, df |-> DF(df.rows, s3.ind)]
    ELSE [raised |-> "none",
          df |-> DF(df.rows, vwap_step(volume_step(s3.ind, lib), is_intraday, lib))]

(***************************************************************************)
(* Rule of Three (lines 157-203)                                           *)
(***************************************************************************)
\* line 160
trend_of(last_day, ind) == Gt(last_day.Close, ind["EMA_50"])

mom_inclusive(rsi) == rsi.k = "num" /\ 50 <= rsi.v /\ rsi.v <= 70

\* line 167: 50 < rsi_val < 70
mom_of(rsi) == rsi.k = "num" /\ 50 < rsi.v /\ rsi.v < 70

\* line 173
vol_of(last_day, ind) == Gt(last_day.Volume, ind["Vol_SMA_5"])

\* line 179
intra_of(last_15, ind) == Gt(last_15.Close, ind["VWAP"])

B2I(b) == IF b THEN 1 ELSE 0

score_with_gate(t, m, v, i) == B2I(t) + B2I(m) + B2I(v) + B2I(i)

\* lines 157, 163, 170, 176: the intraday check (line 179) adds nothing
score_of(t, m, v, i) == B2I(t) + B2I(m) + B2I(v)

classify_ignoring_gate(s, i) ==
    IF s = 3 THEN "STRONG_BUY" ELSE IF s <= 1 THEN "NO_TRADE" ELSE "WATCHLIST"

\* lines 198-203
classify(s, i) ==
    IF s = 3 /\ i THEN "STRONG_BUY" ELSE IF s <= 1 THEN "NO_TRADE" ELSE "WATCHLIST"

Banners == {"STRONG_BUY", "NO_TRADE", "WATCHLIST"}
\* what an analysis writes once the scoring has gone through (lines 184-224)
VerdictElements == {"metrics", "checklist", "daily_chart", "intra_chart"} \cup Banners

(***************************************************************************)
(* Inputs of the model                                                     *)
(***************************************************************************)
APP_PASSWORD == "s3cret"
Passwords == {"", "guess", APP_PASSWORD}
Stocks == {"SBIN"}

MaxCalls == 3      \* cap of the generateSession counter
MaxRows  == 3      \* longest gateway payload handed to fetch_data directly

Candle(ts, close, vol) ==
    <<RawStr(ts), RawNum(close), RawNum(close), RawNum(close), RawNum(close), RawNum(vol)>>
CandleA == Candle(1, 100, 10)
CandleB == Candle(2, 110, 30)

\* gateway answers met by an Analyze request
GatewayResponses ==
    {RespRaise, RespNoData, RespNull, RespRows(<<>>),
     RespRows(<<CandleA, CandleB>>), RespRows(<<CandleB, CandleA>>),
     RespRows(<<CandleA, <<RawBad, RawNum(1), RawNum(1), RawNum(1), RawNum(1), RawNum(1)>> >>)}

SupertrendFull == Frame(<<Col("SUPERT", Num(1)), Col("SUPERTd", Num(2)),
                          Col("SUPERTl", Num(3)), Col("SUPERTs", Num(4))>>)
SupertrendLacking == Frame(<<Col("SUPERTd", Num(2)), Col("SUPERTl", Num(3))>>)
MacdFull == Frame(<<Col("MACD", Num(1)), Col("MACDh", Num(2)), Col("MACDs", Num(3))>>)
MacdNoSignal == Frame(<<Col("MACD", Num(1)), Col("MACDh", Num(2))>>)
MacdNoLine == Frame(<<Col("MACDh", Num(2)), Col("MACDs", Num(3))>>)
BbFull == Frame(<<Col("BBL", Num(1)), Col("BBM", Num(2)), Col("BBU", Num(3)),
                  Col("BBB", Num(4)), Col("BBP", Num(5))>>)
BbNoUpper == Frame(<<Col("BBL", Num(1)), Col("BBM", Num(2))>>)
BbNoLower == Frame(<<Col("BBM", Num(2)), Col("BBU", Num(3))>>)

RsiValues == {PyNone, NaN, Num(49), Num(50), Num(51), Num(69), Num(70), Num(71)}

\* pandas_ta results for the daily table of a request (ta.vwap is not called).
\* A frame pandas_ta returns carries all its columns; frames lacking one are
\* given to add_indicators directly, under SpecIndicators.
DailyLib ==
    [sma50 : {Num(104)}, ema50 : {PyNone, NaN, Num(105)}, rsi : RsiValues,
     vol_sma5 : {PyNone, NaN, Num(20)}, vwap : {PyNone},
     supertrend : {NoFrame, SupertrendFull}, macd : {NoFrame, MacdFull},
     bbands : {BbFull}]

\* pandas_ta results for the intraday table of a request
IntraLib ==
    [sma50 : {Num(104)}, ema50 : {Num(105)}, rsi : {Num(60)},
     vol_sma5 : {Num(20)}, vwap : {PyNone, NaN, Num(105)},
     supertrend : {SupertrendFull}, macd : {MacdFull},
     bbands : {NoFrame, BbFull}]

(***************************************************************************)
(* The script, one action per block of app.py                              *)
(***************************************************************************)
InitApp ==
    /\ secrets_ok \in BOOLEAN
    /\ login_cache = "unset"
    /\ tokens_cache = "unset"
    /\ sessions_created = 0
    /\ pc = "idle"
    /\ check_password = ""
    /\ clicked = FALSE
    /\ api = "unset"
    /\ tokens_df = "unset"
    /\ stock_name = "unset"
    /\ df_daily = UnsetDF
    /\ df_intra = UnsetDF
    /\ trend_bullish = FALSE
    /\ mom_bullish = FALSE
    /\ vol_bullish = FALSE
    /\ intra_bullish = FALSE
    /\ score = 0
    /\ rsi_val = NaN
    /\ shown = {}
    /\ exc = "none"
    /\ reached = {}
    /\ ever_unlocked = FALSE
    /\ touched = {}
    /\ failed_before = FALSE

Init == InitApp /\ arg = <<>> /\ ret = <<>>

flagvars == <<trend_bullish, mom_bullish, vol_bullish, intra_bullish, score, rsi_val>>
dfvars   == <<df_daily, df_intra>>
inputs   == <<check_password, clicked>>

\* a gated step executes: remembered for this run and for the process
Reach(step) ==
    /\ reached' = reached \cup {step}
    /\ touched' = touched \cup {step}

\* a user interaction re-executes the script from line 1
Rerun(pw, click) ==
    /\ pc = "idle"
    /\ pc' = "config"
    /\ check_password' = pw
    /\ clicked' = click
    /\ api' = "unset"
    /\ tokens_df' = "unset"
    /\ stock_name' = "unset"
    /\ df_daily' = UnsetDF
    /\ df_intra' = UnsetDF
    /\ trend_bullish' = FALSE
    /\ mom_bullish' = FALSE
    /\ vol_bullish' = FALSE
    /\ intra_bullish' = FALSE
    /\ score' = 0
    /\ rsi_val' = NaN
    /\ shown' = {}
    /\ exc' = "none"
    /\ reached' = {}
    /\ UNCHANGED <<procvars, histvars, fnvars>>

\* lines 16-27
Config ==
    /\ pc = "config"
    /\ IF secrets_ok
       THEN pc' = "gate" /\ shown' = shown
       ELSE pc' = "idle" /\ shown' = shown \cup {"secrets_error"}
    /\ UNCHANGED <<procvars, histvars, fnvars, inputs, api, tokens_df, stock_name,
                   dfvars, flagvars, exc, reached>>

gate_stops_on_empty(pw) == pw = ""

\* line 33
gate_stops(pw) == pw # APP_PASSWORD

\* lines 32-35
SecurityLock ==
    /\ pc = "gate"
    /\ IF gate_stops(check_password)
       THEN /\ pc' = "idle"
            /\ shown' = shown \cup {"lock_warning"}
            /\ UNCHANGED ever_unlocked
       ELSE /\ pc' = "login"
            /\ shown' = shown
            /\ ever_unlocked' = TRUE
    /\ UNCHANGED <<procvars, fnvars, inputs, api, tokens_df, stock_name, dfvars,
                   flagvars, exc, reached, touched, failed_before>>

memoized_on_success(cache) == cache = "api"

\* @st.cache_resource (line 38): any returned value, None included, is kept
memoized(cache) == cache # "unset"

LoginOutcomes == {"status_true", "status_false", "raise"}

\* lines 39-51, the body of login
login(outcome) == IF outcome = "status_true" THEN "api" ELSE "None"

\* line 66
Login ==
    /\ pc = "login"
    /\ Reach("login")
    /\ pc' = "load_tokens"
    /\ IF memoized(login_cache)
       THEN /\ api' = login_cache
            /\ UNCHANGED <<login_cache, sessions_created, shown>>
       ELSE \E outcome \in LoginOutcomes :
            /\ sessions_created' =
                   IF sessions_created < MaxCalls THEN sessions_created + 1
                   ELSE sessions_created
            /\ login_cache' = login(outcome)
            /\ api' = login(outcome)
            /\ shown' = IF outcome = "status_true" THEN shown
                        ELSE shown \cup {"login_error"}
    /\ UNCHANGED <<secrets_ok, tokens_cache, fnvars, inputs, tokens_df, stock_name,
                   dfvars, flagvars, exc, ever_unlocked, failed_before>>

\* lines 57-64, the body of load_tokens
load_tokens(file) == IF file = "rows" THEN "table" ELSE "empty"

\* line 67, @st.cache_data (line 56)
LoadTokens ==
    /\ pc = "load_tokens"
    /\ Reach("load_tokens")
    /\ pc' = "selector"
    /\ IF tokens_cache # "unset"
       THEN /\ tokens_df' = tokens_cache
            /\ UNCHANGED <<tokens_cache, shown>>
       ELSE \E file \in {"rows", "header_only", "missing"} :
            /\ tokens_cache' = load_tokens(file)
            /\ tokens_df' = load_tokens(file)
            /\ shown' = IF file = "missing" THEN shown \cup {"token_file_warning"}
                        ELSE shown
    /\ UNCHANGED <<secrets_ok, login_cache, sessions_created, fnvars, inputs, api,
                   stock_name, dfvars, flagvars, exc, ever_unlocked, failed_before>>

\* lines 126-135
StockSelector ==
    /\ pc = "selector"
    /\ Reach("selector")
    /\ IF tokens_df = "empty"
       THEN /\ pc' = "idle"
            /\ shown' = shown \cup {"empty_list_error"}
            /\ UNCHANGED stock_name
       ELSE /\ pc' = "button"
            /\ shown' = shown
            /\ stock_name' \in Stocks
    /\ UNCHANGED <<procvars, fnvars, inputs, api, tokens_df, dfvars, flagvars, exc,
                   ever_unlocked, failed_before>>

\* line 137
AnalyzeButton ==
    /\ pc = "button"
    /\ pc' = IF clicked THEN "fetch_daily" ELSE "idle"
    /\ UNCHANGED <<procvars, histvars, fnvars, inputs, api, tokens_df, stock_name,
                   dfvars, flagvars, shown, exc, reached>>

\* line 140
FetchDaily ==
    /\ pc = "fetch_daily"
    /\ Reach("fetch_data")
    /\ pc' = "fetch_intra"
    /\ \E resp \in GatewayResponses : df_daily' = fetch_data(api, resp)
    /\ UNCHANGED <<procvars, fnvars, inputs, api, tokens_df, stock_name, df_intra,
                   flagvars, shown, exc, ever_unlocked, failed_before>>

\* line 143
FetchIntra ==
    /\ pc = "fetch_intra"
    /\ Reach("fetch_data")
    /\ pc' = "check"
    /\ \E resp \in GatewayResponses : df_intra' = fetch_data(api, resp)
    /\ UNCHANGED <<procvars, fnvars, inputs, api, tokens_df, stock_name, df_daily,
                   flagvars, shown, exc, ever_unlocked, failed_before>>

Fetched_not_none(df) == df.kind # "None"

\* line 145: df is not None and not df.empty
Fetched(df) == df.kind # "None" /\ ~Empty(df)

\* lines 145, 226-227
CheckFetched ==
    /\ pc = "check"
    /\ IF Fetched(df_daily) /\ Fetched(df_intra)
       THEN /\ pc' = "ind_daily"
            /\ UNCHANGED <<shown, failed_before>>
       ELSE /\ pc' = "idle"
            /\ shown' = shown \cup {"fetch_error"}
            /\ failed_before' = TRUE
    /\ UNCHANGED <<procvars, fnvars, inputs, api, tokens_df, stock_name, dfvars,
                   flagvars, exc, reached, ever_unlocked, touched>>

\* line 148
IndicatorsDaily ==
    /\ pc = "ind_daily"
    /\ \E lib \in DailyLib :
         LET r == add_indicators(df_daily, FALSE, lib) IN
         /\ df_daily' = r.df
         /\ exc' = r.raised
         /\ pc' = IF r.raised = "none" THEN "ind_intra" ELSE "idle"
    /\ UNCHANGED <<procvars, histvars, fnvars, inputs, api, tokens_df, stock_name,
                   df_intra, flagvars, shown, reached>>

\* line 149
IndicatorsIntra ==
    /\ pc = "ind_intra"
    /\ \E lib \in IntraLib :
         LET r == add_indicators(df_intra, TRUE, lib) IN
         /\ df_intra' = r.df
         /\ exc' = r.raised
         /\ pc' = IF r.raised = "none" THEN "score" ELSE "idle"
    /\ UNCHANGED <<procvars, histvars, fnvars, inputs, api, tokens_df, stock_name,
                   df_daily, flagvars, shown, reached>>

\* the first comparison of lines 160-179 that meets a None raises TypeError
ScoringRaises ==
    \/ GtRaises(Last(df_daily).Close, df_daily.ind["EMA_50"])
    \/ df_daily.ind["RSI"].k = "none"
    \/ GtRaises(Last(df_daily).Volume, df_daily.ind["Vol_SMA_5"])
    \/ GtRaises(Last(df_intra).Close, df_intra.ind["VWAP"])

\* lines 151-181
RuleOfThree ==
    /\ pc = "score"
    /\ Reach("scoring")
    /\ IF Empty(df_daily) \/ Empty(df_intra)            \* iloc[-1], lines 151-152
       THEN /\ exc' = "IndexError"
            /\ pc' = "idle"
            /\ UNCHANGED <<flagvars, shown>>
       ELSE IF ScoringRaises
       THEN /\ exc' = "TypeError"
            /\ pc' = "idle"
            /\ shown' = shown \cup {"title"}
            /\ UNCHANGED flagvars
       ELSE LET t == trend_of(Last(df_daily), df_daily.ind)
                m == mom_of(df_daily.ind["RSI"])
                v == vol_of(Last(df_daily), df_daily.ind)
                i == intra_of(Last(df_intra), df_intra.ind)
            IN /\ trend_bullish' = t
               /\ rsi_val' = df_daily.ind["RSI"]
               /\ mom_bullish' = m
               /\ vol_bullish' = v
               /\ intra_bullish' = i
               /\ score' = score_of(t, m, v, i)
               /\ exc' = exc
               /\ shown' = shown \cup {"title"}
               /\ pc' = "display"
    /\ UNCHANGED <<procvars, fnvars, inputs, api, tokens_df, stock_name, dfvars,
                   ever_unlocked, failed_before>>

\* lines 184-203
Display ==
    /\ pc = "display"
    /\ shown' = shown \cup {"metrics", "checklist", classify(score, intra_bullish)}
    /\ pc' = "charts"
    /\ UNCHANGED <<procvars, histvars, fnvars, inputs, api, tokens_df, stock_name,
                   dfvars, flagvars, exc, reached>>

\* lines 206-224: line 214 reads df_daily['MACD'] and df_daily['MACD_Signal'] unguarded
Charts ==
    /\ pc = "charts"
    /\ pc' = "idle"
    /\ IF {"MACD", "MACD_Signal"} \subseteq Columns(df_daily)
       THEN shown' = shown \cup {"daily_chart", "intra_chart"} /\ exc' = exc
       ELSE shown' = shown /\ exc' = "KeyError"
    /\ UNCHANGED <<procvars, histvars, fnvars, inputs, api, tokens_df, stock_name,
                   dfvars, flagvars, reached>>

Next ==
    \/ \E pw \in Passwords, click \in BOOLEAN : Rerun(pw, click)
    \/ Config
    \/ SecurityLock
    \/ Login
    \/ LoadTokens
    \/ StockSelector
    \/ AnalyzeButton
    \/ FetchDaily
    \/ FetchIntra
    \/ CheckFetched
    \/ IndicatorsDaily
    \/ IndicatorsIntra
    \/ RuleOfThree
    \/ Display
    \/ Charts

Spec == Init /\ [][Next]_vars

(***************************************************************************)
(* fetch_data and add_indicators called on their own, over wider inputs    *)
(***************************************************************************)
ShortRow == <<RawStr(3), RawNum(1), RawNum(1), RawNum(1), RawNum(1)>>
FetchRows ==
    {CandleA, CandleB,
     <<RawStr(3), RawStr(120), RawStr(120), RawStr(120), RawStr(120), RawStr(5)>>,
     <<RawStr(4), RawNum(90), RawNum(90), RawNum(90), RawNull, RawNum(7)>>,
     <<RawBad, RawNum(1), RawNum(1), RawNum(1), RawNum(1), RawNum(1)>>,
     <<RawStr(5), RawNum(1), RawNum(1), RawNum(1), RawBad, RawNum(1)>>,
     ShortRow}

Payloads == UNION {[1..n -> FetchRows] : n \in 0..MaxRows}

FetchArgs ==
    [fn : {"fetch_data"}, api : {"api", "None"},
     resp : {RespRaise, RespNoData, RespNull} \cup {RespRows(rows) : rows \in Payloads}]

InitFetch == InitApp /\ secrets_ok /\ arg \in FetchArgs /\ ret = <<>>

CallFetchData ==
    /\ Len(ret) = 0
    /\ ret' = <<fetch_data(arg.api, arg.resp)>>
    /\ UNCHANGED <<procvars, runvars, histvars, arg>>

NextFetch == CallFetchData

SpecFetch == InitFetch /\ [][NextFetch]_vars

FullLib ==
    [sma50 : {Num(104)}, ema50 : {PyNone, NaN, Num(105)}, rsi : {PyNone, Num(60)},
     vol_sma5 : {Num(20)}, vwap : {PyNone, Num(105)},
     supertrend : {NoFrame, SupertrendFull, SupertrendLacking},
     macd : {NoFrame, MacdFull, MacdNoSignal, MacdNoLine},
     bbands : {NoFrame, BbFull, BbNoUpper, BbNoLower}]

IndicatorArgs ==
    [fn : {"add_indicators"},
     df : {fetch_data("api", RespRows(<<CandleA, CandleB>>)),
           fetch_data("api", RespRows(<<CandleB>>))},
     is_intraday : BOOLEAN,
     lib : FullLib]

InitIndicators == InitApp /\ secrets_ok /\ arg \in IndicatorArgs /\ ret = <<>>

CallAddIndicators ==
    /\ Len(ret) = 0
    /\ ret' = <<add_indicators(arg.df, arg.is_intraday, arg.lib)>>
    /\ UNCHANGED <<procvars, runvars, histvars, arg>>

NextIndicators == CallAddIndicators

SpecIndicators == InitIndicators /\ [][NextIndicators]_vars

(***************************************************************************)
(* Properties                                                              *)
(***************************************************************************)
\* the scoring block of this run ran to its end (flags and score are set)
Scored == "scoring" \in reached /\ exc \notin {"TypeError", "IndexError"}
\* the classification of this run has been written (line 198-203 executed)
Classified == "checklist" \in shown
\* this run was an Analyze request and has ended
RequestEnded == pc = "idle" /\ clicked /\ "fetch_data" \in reached
NoRows(df) == df.kind = "None" \/ Len(df.rows) = 0
FetchFailed == NoRows(df_daily) \/ NoRows(df_intra)

\* C1: an analysis that shows a classification shows exactly one banner:
\* STRONG_BUY iff score = 3 and the intraday gate is bullish, NO_TRADE iff
\* score <= 1 whatever the gate, WATCHLIST in every other case.
C1_Classification ==
    Classified =>
        /\ Cardinality(shown \cap Banners) = 1
        /\ ("STRONG_BUY" \in shown <=> (score = 3 /\ intra_bullish))
        /\ ("NO_TRADE" \in shown <=> score <= 1)
        /\ ("WATCHLIST" \in shown <=> (score = 2 \/ (score = 3 /\ ~intra_bullish)))

\* C1 witness: a perfect score with a bearish gate was classified (as WATCHLIST)
C1_Witness == Classified /\ score = 3 /\ ~intra_bullish /\ "WATCHLIST" \in shown

\* C2: where the classification is chosen, score is the number of true flags
\* among trend, momentum and volume, an integer in 0..3; the intraday gate
\* adds nothing to it.
C2_ScoreIsFlagCount ==
    Scored =>
        /\ score = Cardinality({f \in {"t", "m", "v"} :
                       \/ (f = "t" /\ trend_bullish)
                       \/ (f = "m" /\ mom_bullish)
                       \/ (f = "v" /\ vol_bullish)})
        /\ score \in 0..3

\* C2 witness: scoring finished with the gate bullish and no daily flag set
C2_Witness == pc = "display" /\ intra_bullish /\ score = 0

\* C3: momentum is bullish iff the daily RSI is strictly between 50 and 70;
\* otherwise (50, 70 and NaN included) it adds nothing to the score.
C3_MomentumStrict ==
    Scored =>
        /\ mom_bullish <=> (rsi_val.k = "num" /\ rsi_val.v > 50 /\ rsi_val.v < 70)
        /\ (~mom_bullish => score = B2I(trend_bullish) + B2I(vol_bullish))

\* C3 witness: an RSI of exactly 70 was scored as not bullish
C3_Witness == pc = "display" /\ rsi_val = Num(70) /\ ~mom_bullish

\* C4 (as claimed): when the latest daily row has no defined EMA_50, the run
\* shows no verdict element.
C4_NoVerdictOnUndefinedEma ==
    (df_daily.kind = "df" /\ "EMA_50" \in DOMAIN df_daily.ind
       /\ df_daily.ind["EMA_50"].k \in {"nan", "none"})
    => shown \cap VerdictElements = {}

GatedSteps == {"login", "load_tokens", "selector", "fetch_data", "scoring"}
GatedPositions == {"login", "load_tokens", "selector", "button", "fetch_daily",
                   "fetch_intra", "check", "ind_daily", "ind_intra", "score",
                   "display", "charts"}

\* C5: a run whose password differs from APP_PASSWORD executes none of
\* login, load_tokens, the selector, fetch_data, scoring/rendering; and none
\* of them is executed by any run before a run whose password matched.
C5_GateGuards ==
    /\ (check_password # APP_PASSWORD =>
           /\ reached = {}
           /\ pc \notin GatedPositions
           /\ shown \subseteq {"secrets_error", "lock_warning"})
    /\ (touched # {} => ever_unlocked)
    /\ (login_cache # "unset" \/ tokens_cache # "unset" => ever_unlocked)

\* C5 witness: after an earlier run was unlocked, a run with a wrong password
\* stopped at the gate
C5_Witness ==
    /\ ever_unlocked /\ touched # {}
    /\ pc = "idle" /\ check_password = "guess" /\ "lock_warning" \in shown

\* both tables carry the values the scorer reads, none of them None
ScoringInputsPresent ==
    /\ {"EMA_50", "RSI", "Vol_SMA_5"} \subseteq DOMAIN df_daily.ind
    /\ "VWAP" \in DOMAIN df_intra.ind
    /\ \A c \in {"EMA_50", "RSI", "Vol_SMA_5"} : df_daily.ind[c].k # "none"
    /\ df_intra.ind["VWAP"].k # "none"

\* a failed fetch ends the request with the message alone and no exception
C6_FailureAborts ==
    (RequestEnded /\ FetchFailed) =>
        /\ "fetch_error" \in shown
        /\ shown \cap (VerdictElements \cup {"title"}) = {}
        /\ exc = "none"

\* C6 (as claimed): a failed fetch aborts the request with the message only,
\* and every later request whose two fetches succeed produces a verdict.
C6_Original ==
    /\ C6_FailureAborts
    /\ (RequestEnded /\ failed_before /\ ~FetchFailed) => shown \cap Banners # {}

\* C6 (amended): a failed fetch aborts the request with the message only, and
\* every later request whose two fetches succeed and whose tables carry
\* non-None EMA_50, RSI, Vol_SMA_5 and VWAP produces a verdict.
C6_Amended ==
    /\ C6_FailureAborts
    /\ (RequestEnded /\ ~FetchFailed /\ ScoringInputsPresent)
          => (shown \cap Banners # {} /\ {"metrics", "checklist"} \subseteq shown)

\* C6 witness: after an earlier request failed to fetch, a later request was
\* classified
C6_Witness == failed_before /\ RequestEnded /\ ~FetchFailed /\ shown \cap Banners # {}

Returned == Len(ret) = 1

\* C7: add_indicators with is_intraday = False never adds a VWAP column; the
\* result carries VWAP only when is_intraday = True.
C7_NoDailyVwap ==
    Returned =>
        /\ (~arg.is_intraday => "VWAP" \notin Columns(ret[1].df))
        /\ ("VWAP" \in Columns(ret[1].df) => arg.is_intraday)

\* C7 witness: a daily call returned all its other columns, and no VWAP
C7_Witness ==
    /\ Returned /\ ~arg.is_intraday /\ ret[1].raised = "none"
    /\ "Vol_SMA_5" \in Columns(ret[1].df) /\ "VWAP" \notin Columns(ret[1].df)

\* C8: the gateway session is created at most once per process, whether the
\* first login succeeded or failed; after a failed login no run shows a
\* verdict and every Analyze request ends in the fetch-failure message.
C8_LoginOnce ==
    /\ sessions_created = IF login_cache = "unset" THEN 0 ELSE 1
    /\ (login_cache = "None" => shown \cap VerdictElements = {})
    /\ (login_cache = "None" /\ RequestEnded =>
           ("fetch_error" \in shown /\ exc = "none"))

\* C8 witness: with a failed login memoized, a second Analyze request is under
\* way after the first one failed, and the session was created once
C8_Witness ==
    /\ login_cache = "None" /\ failed_before /\ pc = "check"
    /\ api = "None" /\ sessions_created = 1

\* C9 (as claimed): add_indicators never raises; keys whose computation gave
\* no usable result are absent and every other indicator is computed.
C9_NeverRaises ==
    Returned =>
        /\ ret[1].raised = "none"
        /\ {"SMA_50", "EMA_50", "RSI", "Vol_SMA_5"} \subseteq Columns(ret[1].df)

TsOf(row) == row.Timestamp.v
\* C10 (as claimed): the table fetch_data returns is in ascending timestamp
\* order with one row per input row, so its last row has the greatest timestamp.
C10_SortedAscending ==
    (Returned /\ ret[1].kind = "df") =>
        /\ Len(ret[1].rows) = Len(arg.resp.rows)
        /\ \A i, j \in 1..Len(ret[1].rows) :
               i < j => TsOf(ret[1].rows[i]) <= TsOf(ret[1].rows[j])

====
